---- MODULE Spec2Model ----
(***************************************************************************)
(* A model of the numeric core of the telescope data pipeline (core.py):   *)
(* find_fwhm, calculate_shift, roll_image, median_combiner,                *)
(* image_combiner, image_mask and bkg_sub.                                 *)
(*                                                                         *)
(* Each function is one action that maps the caller's arguments, held in   *)
(* state variables, to the function's outcome.  An outcome is the value    *)
(* returned, None, or Raise when the call ends in a Python exception.      *)
(* Centroids are integers (or half pixels where the code's comparisons     *)
(* need halves); a not-a-number field is the value NaN.                    *)
(***************************************************************************)
EXTENDS Integers, Sequences, FiniteSets, TLC

VARIABLES
    phase,          \* which call has been made so far
    stars1,         \* calculate_shift: the reference table
    stars2,         \* calculate_shift: the target table
    diff,           \* calculate_shift's outcome, roll_image's argument
    image_shift,    \* roll_image's outcome
    detections,     \* image_combiner: what find_stars returns for each frame
    median_image,   \* image_combiner's outcome
    sources,        \* image_mask: the detection table passed in
    fwhm,           \* image_mask / bkg_sub: the fwhm argument
    masked,         \* image_mask: stars_tbl after remove_rows(d), line 337
    stars_tbl,      \* image_mask's outcome; bkg_sub's table argument
    bkg_medians,    \* bkg_sub: the annulus median measured for each star
    image_lbs,      \* bkg_sub's outcome
    image,          \* find_fwhm: the caller's array
    image_before,   \* find_fwhm: the contents of that array before the call
    locals,         \* find_fwhm: max_peak, count, fwhm and im_sig
    fwhm_result     \* find_fwhm's outcome

vars == <<phase, stars1, stars2, diff, image_shift, detections, median_image,
          sources, fwhm, masked, stars_tbl, bkg_medians, image_lbs,
          image, image_before, locals, fwhm_result>>

\* What a call leaves in its result variable.
Ok(v) == [kind |-> "ok", val |-> v]             \* it returned the value v
None == [kind |-> "none", val |-> 0]            \* it returned None
Raise == [kind |-> "raise", val |-> 0]          \* it ended in an exception
Pending == [kind |-> "pending", val |-> 0]      \* it has not been made

\* A local variable of a function: bound to a value or not yet assigned.
Bound(v) == [bound |-> TRUE, v |-> v]
Unbound == [bound |-> FALSE, v |-> 0]

NoLocals == [max_peak |-> 0, count |-> 0, fwhm |-> Unbound, im_sig |-> Unbound]

\* A star table argument: the rows of an astropy Table, or Python's None
\* (what DAOStarFinder returns when it finds no source).
Table(rows) == [found |-> TRUE, rows |-> rows]
NoTable == [found |-> FALSE, rows |-> <<>>]

\* numpy.nan in an array of numbers: a value outside the range of every
\* number the model computes, never used in arithmetic or comparisons.
NaN == -1000000

----------------------------------------------------------------------------
(* Helpers standing for numpy primitives.                                  *)

Range(s) == {s[i] : i \in DOMAIN s}

Abs(n) == IF n < 0 THEN -n ELSE n

\* np.sqrt on the squared separations the model produces (perfect squares).
Sqrt(n) == CHOOSE r \in 0..n : r * r = n

\* np.min over a one-dimensional array.
Min(s) == CHOOSE m \in Range(s) : \A v \in Range(s) : m <= v

RECURSIVE Insert(_, _)
Insert(v, s) ==
    IF s = <<>> THEN <<v>>
    ELSE IF v <= Head(s) THEN <<v>> \o s
    ELSE <<Head(s)>> \o Insert(v, Tail(s))

RECURSIVE SortAsc(_)
SortAsc(s) == IF s = <<>> THEN <<>> ELSE Insert(Head(s), SortAsc(Tail(s)))

\* Twice np.median of a non-empty array of integers (the median of an even
\* number of values is the mean of the two middle ones).
Median2(s) ==
    LET t == SortAsc(s)
        n == Len(s)
    IN  IF n % 2 = 1 THEN 2 * t[(n + 1) \div 2]
        ELSE t[n \div 2] + t[n \div 2 + 1]

\* np.round(h / 2, 0): round to nearest, halves to the even integer.
RoundHalfEven(h) ==
    LET f == h \div 2
    IN  IF h % 2 = 0 THEN f
        ELSE IF f % 2 = 0 THEN f ELSE f + 1

----------------------------------------------------------------------------
(* calculate_shift, core.py 148-177.                                       *)

Tolerance == 20

NanRow == <<NaN, NaN, NaN>>

\* lines 168-170: the distances from stars1[i] to every row of stars2.
Distances(s, tbl) ==
    [j \in 1..Len(tbl) |->
        Sqrt((s.x - tbl[j].x) * (s.x - tbl[j].x)
             + (s.y - tbl[j].y) * (s.y - tbl[j].y))]

\* line 171: the boolean mask, as the set of selected indices.
Match(distances) == {j \in DOMAIN distances : distances[j] = Min(distances)}

\* lines 172-175 for one reference star whose mask selects one target.
ShiftRow(s, tbl) ==
    LET distances == Distances(s, tbl)
        j == CHOOSE k \in Match(distances) : TRUE
    IN  IF distances[j] < Tolerance
        THEN <<distances[j], s.x - tbl[j].x, s.y - tbl[j].y>>
        ELSE NanRow

\* `if distances[match] < 20` on a mask that selects several elements is the
\* truth value of an array of several booleans: ValueError.
AmbiguousRow(s, tbl) == Cardinality(Match(Distances(s, tbl))) > 1

calculate_shift(s1, s2) ==
    IF ~s1.found \/ ~s2.found THEN Raise        \* None['xcentroid']: TypeError
    ELSE IF Len(s1.rows) = 0 THEN Ok(<<>>)      \* the loop body never runs
    ELSE IF Len(s2.rows) = 0 THEN Raise         \* np.min of an empty array
    ELSE IF \E i \in 1..Len(s1.rows) : AmbiguousRow(s1.rows[i], s2.rows)
         THEN Raise
    ELSE Ok([i \in 1..Len(s1.rows) |-> ShiftRow(s1.rows[i], s2.rows)])

----------------------------------------------------------------------------
(* roll_image, core.py 179-213.                                            *)

TwiceThreshold == 1     \* threshold=0.5, doubled like Median2

ImgH == 5
ImgW == 7
Pixels == (0..(ImgH - 1)) \X (0..(ImgW - 1))

\* The frame the shift calls are made on: every pixel has its own (even) value.
Frame(k) == [p \in Pixels |-> 2 * (p[1] * ImgW + p[2]) + 100 * k]

\* np.median of one column of diff: NaN for an empty column and when any
\* element is NaN, otherwise (twice) the median.
NpMedian2(col) ==
    IF col = <<>> \/ NaN \in Range(col) THEN NaN ELSE Median2(col)

Column(d, k) == [i \in 1..Len(d) |-> d[i][k]]

\* np.roll(image, (yshift, xshift), axis=(0, 1))
Roll(img, yshift, xshift) ==
    [p \in Pixels |-> img[<<(p[1] - yshift) % ImgH, (p[2] - xshift) % ImgW>>]]

roll_image(img, d) ==
    LET offset == NpMedian2(Column(d, 1))
    IN  IF offset # NaN /\ offset >= TwiceThreshold      \* NaN >= 0.5 is False
        THEN LET xshift == NpMedian2(Column(d, 2))
                 yshift == NpMedian2(Column(d, 3))
             IN  Roll(img, RoundHalfEven(yshift), RoundHalfEven(xshift))
        ELSE img

----------------------------------------------------------------------------
(* Inputs of the star matcher and frame shifter.                           *)

MaxStars == 3

\* Centroids on a line of direction (3, 4), so that every separation is a
\* whole number of pixels: 5, 10, 20 (the tolerance), 25 or 30.
Points == { [x |-> 47, y |-> 46], [x |-> 50, y |-> 50],
            [x |-> 53, y |-> 54], [x |-> 65, y |-> 70] }

Tables(S, n) == UNION {[1..k -> S] : k \in 0..n}

InitOther ==
    /\ detections = <<>> /\ median_image = Pending
    /\ sources = <<>> /\ fwhm = 0 /\ masked = Pending /\ stars_tbl = Pending
    /\ bkg_medians = <<>> /\ image_lbs = Pending
    /\ image = Pending /\ image_before = Pending /\ fwhm_result = Pending
    /\ locals = NoLocals

InitShift ==
    /\ phase = "init"
    /\ stars1 \in {Table(r) : r \in Tables(Points, MaxStars)}
    /\ stars2 \in {Table(r) : r \in Tables(Points, MaxStars)}
    /\ diff = Pending /\ image_shift = Pending
    /\ InitOther

CalculateShift ==
    /\ phase = "init"
    /\ diff' = calculate_shift(stars1, stars2)
    /\ phase' = "calculate_shift"
    /\ UNCHANGED <<stars1, stars2, image_shift, detections, median_image,
                   sources, fwhm, masked, stars_tbl, bkg_medians, image_lbs,
                   image, image_before, locals, fwhm_result>>

RollImage ==
    /\ phase = "calculate_shift"
    /\ diff.kind = "ok"
    /\ image_shift' = Ok(roll_image(Frame(0), diff.val))
    /\ phase' = "roll_image"
    /\ UNCHANGED <<stars1, stars2, diff, detections, median_image,
                   sources, fwhm, masked, stars_tbl, bkg_medians, image_lbs,
                   image, image_before, locals, fwhm_result>>

NextShift == CalculateShift \/ RollImage

SpecShift == InitShift /\ [][NextShift]_vars

----------------------------------------------------------------------------
(* median_combiner, core.py 215-243, and image_combiner, core.py 245-279.  *)

\* ccdproc's Combiner: clip the values of a pixel that lie more than three
\* standard deviations from their median, then take the median of the rest.
\* Among fewer than eleven values none lies that far out, so for the frame
\* counts of the model the result is the plain median.  Pixel values are even,
\* which keeps the mean of two middle values whole.
median_combiner(images) ==
    [p \in Pixels |-> Median2([i \in 1..Len(images) |-> images[i][p]]) \div 2]

\* lines 269-272: one shift array per frame, each against frame 0's table.
Diffs(dets) == [k \in 1..Len(dets) |-> calculate_shift(dets[1], dets[k])]

\* dets[i] is what find_stars returned for im_data[i].  After the detection
\* loop `s` is the table of the last frame, and line 265 tests that one.
image_combiner(im_data, dets) ==
    IF ~dets[Len(dets)].found THEN None
    ELSE IF \E k \in 1..Len(dets) : Diffs(dets)[k].kind = "raise" THEN Raise
    ELSE Ok(median_combiner(
            [i \in 1..Len(im_data) |-> roll_image(im_data[i], Diffs(dets)[i].val)]))

MaxFrames == 3
MaxDetStars == 2

DetPoints == { [x |-> 50, y |-> 50], [x |-> 53, y |-> 54], [x |-> 65, y |-> 70] }

\* What the detector can return for one frame: None, or a table with at
\* least one star and no star listed twice.
Detections ==
    {NoTable} \cup
    {Table(r) : r \in {t \in Tables(DetPoints, MaxDetStars) :
                          /\ t # <<>>
                          /\ \A i, j \in DOMAIN t : t[i] = t[j] => i = j}}

InitCombine ==
    /\ phase = "init"
    /\ detections \in UNION {[1..n -> Detections] : n \in 1..MaxFrames}
    /\ median_image = Pending
    /\ stars1 = NoTable /\ stars2 = NoTable /\ diff = Pending
    /\ image_shift = Pending
    /\ sources = <<>> /\ fwhm = 0 /\ masked = Pending /\ stars_tbl = Pending
    /\ bkg_medians = <<>> /\ image_lbs = Pending
    /\ image = Pending /\ image_before = Pending /\ fwhm_result = Pending
    /\ locals = NoLocals

ImageCombiner ==
    /\ phase = "init"
    /\ median_image' =
          image_combiner([i \in 1..Len(detections) |-> Frame(i - 1)], detections)
    /\ phase' = "image_combiner"
    /\ UNCHANGED <<stars1, stars2, diff, image_shift, detections,
                   sources, fwhm, masked, stars_tbl, bkg_medians, image_lbs,
                   image, image_before, locals, fwhm_result>>

NextCombine == ImageCombiner

SpecCombine == InitCombine /\ [][NextCombine]_vars

\* C1: image_combiner returns a null result exactly when the detection of
\* frame 0 is absent, and a combined image when frame 0 has detections.
C1_NullIffReferenceEmpty ==
    phase = "image_combiner" =>
        /\ median_image.kind = "none" <=> ~detections[1].found
        /\ detections[1].found => median_image.kind = "ok"

----------------------------------------------------------------------------
(* Claims about the star matcher and the frame shifter.                    *)

Dist2(p, q) == (p.x - q.x) * (p.x - q.x) + (p.y - q.y) * (p.y - q.y)

\* The targets at minimum distance from the reference star p.
Nearest(p, tbl) ==
    {m \in 1..Len(tbl) : \A k \in 1..Len(tbl) : Dist2(p, tbl[m]) <= Dist2(p, tbl[k])}

\* The record the matcher is to produce for reference star p from target m.
RecordFrom(p, q) ==
    IF Dist2(p, q) < Tolerance * Tolerance
    THEN <<Sqrt(Dist2(p, q)), p.x - q.x, p.y - q.y>>
    ELSE <<NaN, NaN, NaN>>

\* C2: calculate_shift returns one row per reference star, in reference
\* order, and row i is (d, x_ref - x_m, y_ref - y_m) for a target m at the
\* minimum distance d when d < 20, the unmatched sentinel in all three fields
\* when d >= 20.
C2_RowPerReferenceStar ==
    (phase = "calculate_shift" /\ Len(stars2.rows) > 0) =>
        /\ diff.kind = "ok"
        /\ Len(diff.val) = Len(stars1.rows)
        /\ \A i \in 1..Len(stars1.rows) :
              \E m \in Nearest(stars1.rows[i], stars2.rows) :
                  diff.val[i] = RecordFrom(stars1.rows[i], stars2.rows[m])

\* Some reference star has several targets at its minimum distance.
HasTie == \E i \in 1..Len(stars1.rows) :
              Cardinality(Nearest(stars1.rows[i], stars2.rows)) > 1

LowestIndex(S) == CHOOSE m \in S : \A k \in S : m <= k

\* C10: when several targets lie at the identical minimum distance from a
\* reference star, calculate_shift completes normally and that star's record
\* comes from the lowest-index target at the minimum.
C10_TieTakesFirstTarget ==
    (phase = "calculate_shift" /\ HasTie) =>
        /\ diff.kind = "ok"
        /\ \A i \in 1..Len(stars1.rows) :
              diff.val[i] = RecordFrom(stars1.rows[i],
                  stars2.rows[LowestIndex(Nearest(stars1.rows[i], stars2.rows))])

\* The matched (non-sentinel) rows of a shift array, in order.
Matched(d) == SelectSeq(d, LAMBDA row : row[1] # NaN)

\* The frame translated by the medians of the matched rows, or the frame
\* itself when the median matched distance is under the threshold.
ShiftedByMatched(img, d) ==
    LET rows == Matched(d)
    IN  IF Median2(Column(rows, 1)) >= TwiceThreshold
        THEN Roll(img, RoundHalfEven(Median2(Column(rows, 3))),
                       RoundHalfEven(Median2(Column(rows, 2))))
        ELSE img

\* C3: roll_image aggregates over the matched rows only: with at least one
\* matched row the outcome is the one the matched rows alone decide, whatever
\* unmatched rows the array also holds.
C3_MedianOverMatchedRows ==
    (phase = "roll_image" /\ Matched(diff.val) # <<>>) =>
        image_shift.val = ShiftedByMatched(Frame(0), diff.val)

----------------------------------------------------------------------------
(* image_mask, core.py 281-342.  Centroids are in half pixels (x2 = 2x),   *)
(* which makes hsize = 49.5 the whole number Size - 1.                     *)

Size == 100

\* line 303 doubled: 2 * hsize = size - 1.
TwiceHsize == Size - 1

\* lines 309-310 for one star, shape = <<rows, columns>> of the image.
EdgeMask(s, shape) ==
    /\ s.x2 > TwiceHsize
    /\ s.x2 < 2 * (shape[2] - 1) - TwiceHsize
    /\ s.y2 > TwiceHsize
    /\ s.y2 < 2 * (shape[1] - 1) - TwiceHsize

\* lines 311-316: the rows of sources the mask selects, in order.
EdgeKept(srcs, shape) == SelectSeq(srcs, LAMBDA s : EdgeMask(s, shape))

\* line 326-327: sqrt(dx^2 + dy^2) <= 5 * fwhm, both sides non-negative,
\* compared through their squares; separations are in half pixels.
Close(a, b, f) ==
    (a.x2 - b.x2) * (a.x2 - b.x2) + (a.y2 - b.y2) * (a.y2 - b.y2)
        <= (2 * 5 * f) * (2 * 5 * f)

\* lines 317-330: the indices appended to d by the crowding loops.
Crowded(tbl, f) ==
    {idxi \in 1..Len(tbl) :
        \E idxj \in 1..Len(tbl) :
            tbl[idxi].id # tbl[idxj].id /\ Close(tbl[idxi], tbl[idxj], f)}

LowPeakStrict(tbl, bkg, bkg_std) ==
    {idxp \in 1..Len(tbl) : tbl[idxp].peak < bkg + 10 * bkg_std}

\* lines 331-336: the indices appended to d by the peak loop.
LowPeak(tbl, bkg, bkg_std) ==
    {idxp \in 1..Len(tbl) : tbl[idxp].peak <= bkg + 10 * bkg_std}

\* Table.remove_rows: rows holds Python indices, negative ones counted from
\* the end; the other rows stay, in order.
RemoveRows(tbl, rows) ==
    LET n == Len(tbl)
        gone == {i \in 1..n : (i - 1) \in rows \/ (i - 1 - n) \in rows}
        F[i \in 0..n] ==
            IF i = 0 THEN <<>>
            ELSE IF i \in gone THEN F[i - 1] ELSE Append(F[i - 1], tbl[i])
    IN  F[n]

RECURSIVE InsertByFlux(_, _)
InsertByFlux(s, t) ==
    IF t = <<>> THEN <<s>>
    ELSE IF s.flux >= Head(t).flux THEN <<s>> \o t
    ELSE <<Head(t)>> \o InsertByFlux(s, Tail(t))

\* line 338: Table.sort('flux', reverse=True); fluxes are distinct.
RECURSIVE SortByFluxDesc(_)
SortByFluxDesc(t) ==
    IF t = <<>> THEN <<>> ELSE InsertByFlux(Head(t), SortByFluxDesc(Tail(t)))

\* lines 302-337: stars_tbl after remove_rows(d).
Rejected(srcs, shape, f, bkg, bkg_std) ==
    LET tbl == EdgeKept(srcs, shape)
        d == Crowded(tbl, f) \cup LowPeak(tbl, bkg, bkg_std)
    IN  RemoveRows(tbl, {i - 1 : i \in d})

TrimRows == {-5, -4, -3, -2, -1, 0, 1, 2, 3, 4}

TrimFromTen(tbl) ==
    LET sorted == SortByFluxDesc(tbl)
    IN  IF Len(sorted) >= 10 THEN RemoveRows(sorted, TrimRows) ELSE sorted

\* lines 338-342.
Trim(tbl) ==
    LET sorted == SortByFluxDesc(tbl)
    IN  IF Len(sorted) > 10 THEN RemoveRows(sorted, TrimRows) ELSE sorted

image_mask(shape, srcs, f, bkg, bkg_std) ==
    Trim(Rejected(srcs, shape, f, bkg, bkg_std))

----------------------------------------------------------------------------
(* Inputs of the star selector: a 200 x 200 image, background 1000 with    *)
(* standard deviation 50, and a detection table made of up to MaxRich      *)
(* stars at the borders of the rules followed by up to MaxFill well        *)
(* separated bright stars.                                                 *)

MaxRich == 2
MaxFill == 12

MaskShape == <<200, 200>>
MaskBkg == [bkg |-> 1000, bkg_std |-> 50]

\* Half-pixel centroids: on the left border of the edge rule and just inside
\* it, on the bottom border, and three stars 5 and 5.5 pixels apart.
RichPlaces == { <<99, 200>>, <<100, 200>>, <<200, 299>>,
                <<200, 180>>, <<210, 180>>, <<211, 180>> }
RichPeaks == {1500, 1600}
RichFlux == <<2005, 15, 655, 1955>>

\* The k-th filler star: 6 pixels from the next one, fluxes in no order.
Filler(k) == [x2 |-> 116 + 12 * k, y2 |-> 240,
              flux |-> 100 * ((7 * k) % 15) + 100, peak |-> 1600 + k]

SourceTables ==
    {[i \in 1..(Len(r) + n) |->
        IF i <= Len(r)
        THEN [id |-> i, x2 |-> r[i][1][1], y2 |-> r[i][1][2],
              flux |-> RichFlux[i], peak |-> r[i][2]]
        ELSE [id |-> i, x2 |-> Filler(i - Len(r)).x2, y2 |-> Filler(i - Len(r)).y2,
              flux |-> Filler(i - Len(r)).flux, peak |-> Filler(i - Len(r)).peak]] :
     r \in Tables(RichPlaces \X RichPeaks, MaxRich), n \in 0..MaxFill}

InitMask ==
    /\ phase = "init"
    /\ sources \in SourceTables
    /\ fwhm \in {0, 1, 2}
    /\ masked = Pending /\ stars_tbl = Pending
    /\ stars1 = NoTable /\ stars2 = NoTable /\ diff = Pending
    /\ image_shift = Pending
    /\ detections = <<>> /\ median_image = Pending
    /\ bkg_medians = <<>> /\ image_lbs = Pending
    /\ image = Pending /\ image_before = Pending /\ fwhm_result = Pending
    /\ locals = NoLocals

ImageMask ==
    /\ phase = "init"
    /\ masked' = Ok(Rejected(sources, MaskShape, fwhm, MaskBkg.bkg, MaskBkg.bkg_std))
    /\ stars_tbl' = Ok(image_mask(MaskShape, sources, fwhm, MaskBkg.bkg, MaskBkg.bkg_std))
    /\ phase' = "image_mask"
    /\ UNCHANGED <<stars1, stars2, diff, image_shift, detections, median_image,
                   sources, fwhm, bkg_medians, image_lbs,
                   image, image_before, locals, fwhm_result>>

NextMask == ImageMask

SpecMask == InitMask /\ [][NextMask]_vars

----------------------------------------------------------------------------
(* Claims about the star selector.                                         *)

\* (a) the centroid is more than 49.5 pixels from every border of the image.
FarFromBorders(s) ==
    /\ s.x2 > 99 /\ 2 * (MaskShape[2] - 1) - s.x2 > 99
    /\ s.y2 > 99 /\ 2 * (MaskShape[1] - 1) - s.y2 > 99

\* Four times the squared separation of two stars, in pixels.
Sep2x4(s, t) == (s.x2 - t.x2) * (s.x2 - t.x2) + (s.y2 - t.y2) * (s.y2 - t.y2)

\* (b) no other star that passes (a) is at a separation <= 5 * fwhm.
Uncrowded(s) ==
    \A t \in Range(sources) :
        (t.id # s.id /\ FarFromBorders(t)) => Sep2x4(s, t) > 4 * 25 * fwhm * fwhm

\* (c) the peak is strictly above bkg + 10 * bkg_std.
Significant(s) == s.peak > MaskBkg.bkg + 10 * MaskBkg.bkg_std

PassesAll(s) == FarFromBorders(s) /\ Uncrowded(s) /\ Significant(s)

\* C4: before the brightness trim image_mask keeps exactly the input stars
\* that pass the edge, crowding and significance rules; no output star lies
\* within 49.5 pixels of a border, the output is never larger than the input,
\* and against (bkg, bkg_std) = (1000, 50) a peak of 1600 passes rule (c).
C4_KeepsExactlyPassingStars ==
    phase = "image_mask" =>
        /\ masked.val = SelectSeq(sources, PassesAll)
        /\ \A s \in Range(stars_tbl.val) : FarFromBorders(s)
        /\ Len(stars_tbl.val) <= Len(sources)
        /\ \A s \in Range(sources) :
              (s.peak = 1600 /\ FarFromBorders(s) /\ Uncrowded(s))
                  => s \in Range(masked.val)

\* Two significant stars exactly 5 * fwhm apart are both rejected, and every
\* other star of the table is kept.
C4_Witness ==
    /\ phase = "image_mask" /\ fwhm = 1
    /\ \E s, t \in Range(sources) :
          /\ s.id # t.id /\ Sep2x4(s, t) = 100
          /\ Significant(s) /\ Significant(t)
          /\ s \notin Range(masked.val) /\ t \notin Range(masked.val)
    /\ Len(masked.val) > 0
    /\ Len(masked.val) = Len(sources) - 2

Brighter(s, tbl) == Cardinality({t \in Range(tbl) : t.flux > s.flux})
Fainter(s, tbl) == Cardinality({t \in Range(tbl) : t.flux < s.flux})

\* C5: image_mask returns the survivors in descending flux order; all n of
\* them when n <= 10, and when n > 10 exactly the n - 10 survivors that are
\* neither among the 5 of highest flux nor among the 5 of lowest flux.
C5_TrimOnlyAboveTen ==
    phase = "image_mask" =>
        LET n == Len(masked.val)
            out == stars_tbl.val
        IN  /\ \A i \in 1..(Len(out) - 1) : out[i].flux >= out[i + 1].flux
            /\ n <= 10 => (Len(out) = n /\ Range(out) = Range(masked.val))
            /\ n > 10 =>
                  /\ Len(out) = n - 10
                  /\ Range(out) = {s \in Range(masked.val) :
                                      /\ Brighter(s, masked.val) >= 5
                                      /\ Fainter(s, masked.val) >= 5}

\* Twelve stars survive the rejection and two are returned.
C5_Witness ==
    /\ phase = "image_mask"
    /\ Len(masked.val) = 12
    /\ Len(stars_tbl.val) = 2

----------------------------------------------------------------------------
(* bkg_sub, core.py 344-382.  Centroids are in half pixels, as above.      *)

\* The image bkg_sub is called on.
InputImage == Frame(1)

\* lines 374-379: the pixel p = <<r, c>> is inside the window of star s;
\* size = 5 * fwhm, and both sides of each comparison are doubled.
InWindow(p, s, f) ==
    LET px == RoundHalfEven(s.x2)
        py == RoundHalfEven(s.y2)
    IN  /\ 2 * p[1] > 2 * py - 5 * f /\ 2 * p[1] < 2 * py + 5 * f
        /\ 2 * p[2] > 2 * px - 5 * f /\ 2 * p[2] < 2 * px + 5 * f

SubtractFromInput(img, s, f, bkg_median) ==
    [p \in Pixels |->
        IF InWindow(p, s, f) THEN InputImage[p] - bkg_median ELSE img[p]]

\* lines 376-380 for one star: image_lbs[r][c] -= bkg_median in its window.
SubtractStar(img, s, f, bkg_median) ==
    [p \in Pixels |-> IF InWindow(p, s, f) THEN img[p] - bkg_median ELSE img[p]]

\* lines 364-382.  medians[k] is the sigma-clipped median photutils and
\* astropy measure in the annulus of star k on the working copy at that time.
bkg_sub(img, tbl, f, medians) ==
    LET image_lbs_after[k \in 0..Len(tbl)] ==
            IF k = 0 THEN img          \* copy.deepcopy(image)
            ELSE SubtractStar(image_lbs_after[k - 1], tbl[k], f, medians[k])
    IN  image_lbs_after[Len(tbl)]

MaxBkgStars == 2

\* Distinct stars, at the pixels (2, 2), (4, 2), (2.5, 3) and (6, 4).
BkgPlaces == { <<4, 4>>, <<8, 4>>, <<5, 6>>, <<12, 8>> }
BkgLevels == {3, 5}

InitBkg ==
    /\ phase = "init"
    /\ stars_tbl \in {Ok([i \in DOMAIN t |-> [x2 |-> t[i][1], y2 |-> t[i][2]]]) :
                         t \in {u \in Tables(BkgPlaces, MaxBkgStars) :
                                   \A i, j \in DOMAIN u : u[i] = u[j] => i = j}}
    /\ fwhm \in {0, 1, 2}
    /\ bkg_medians = <<>> /\ image_lbs = Pending
    /\ stars1 = NoTable /\ stars2 = NoTable /\ diff = Pending
    /\ image_shift = Pending
    /\ detections = <<>> /\ median_image = Pending
    /\ sources = <<>> /\ masked = Pending
    /\ image = Pending /\ image_before = Pending /\ fwhm_result = Pending
    /\ locals = NoLocals

BkgSub ==
    /\ phase = "init"
    /\ \E medians \in [1..Len(stars_tbl.val) -> BkgLevels] :
          /\ bkg_medians' = medians
          /\ image_lbs' = Ok(bkg_sub(InputImage, stars_tbl.val, fwhm, medians))
    /\ phase' = "bkg_sub"
    /\ UNCHANGED <<stars1, stars2, diff, image_shift, detections, median_image,
                   sources, fwhm, masked, stars_tbl,
                   image, image_before, locals, fwhm_result>>

NextBkg == BkgSub

SpecBkg == InitBkg /\ [][NextBkg]_vars

----------------------------------------------------------------------------
(* Claims about the local background subtractor.                           *)

\* The stars whose square window of side 5 * fwhm, centred on the rounded
\* position, covers the pixel p.
Covering(p) ==
    {k \in 1..Len(stars_tbl.val) :
        /\ 2 * Abs(p[1] - RoundHalfEven(stars_tbl.val[k].y2)) < 5 * fwhm
        /\ 2 * Abs(p[2] - RoundHalfEven(stars_tbl.val[k].x2)) < 5 * fwhm}

Last(S) == CHOOSE k \in S : \A j \in S : j <= k

RECURSIVE SumOver(_, _)
SumOver(S, f) ==
    IF S = {} THEN 0
    ELSE LET k == CHOOSE j \in S : TRUE IN f[k] + SumOver(S \ {k}, f)

\* C6 as stated: a pixel covered by several windows ends as the original
\* value minus the background of the last covering star; a pixel outside all
\* windows is unchanged.
C6_LastWriterWins ==
    phase = "bkg_sub" =>
        \A p \in Pixels :
            image_lbs.val[p] =
                IF Covering(p) = {} THEN InputImage[p]
                ELSE InputImage[p] - bkg_medians[Last(Covering(p))]

\* C6 as amended: the subtraction is additive; every pixel ends as the
\* original value minus the sum of the backgrounds measured for all the
\* stars whose window covers it, and a pixel outside all windows is unchanged.
C6_Additive ==
    phase = "bkg_sub" =>
        \A p \in Pixels :
            image_lbs.val[p] = InputImage[p] - SumOver(Covering(p), bkg_medians)

\* Some pixel lies in two windows with different backgrounds, some in one,
\* some in none.
C6_Witness ==
    /\ phase = "bkg_sub"
    /\ \E p \in Pixels : /\ Cardinality(Covering(p)) = 2
                         /\ \E j, k \in Covering(p) : bkg_medians[j] # bkg_medians[k]
    /\ \E p \in Pixels : Cardinality(Covering(p)) = 1
    /\ \E p \in Pixels : Covering(p) = {}

----------------------------------------------------------------------------
(* find_fwhm, core.py 52-114.                                              *)
(*                                                                         *)
(* The image is a background of one value bg <= 0 with isolated stars in   *)
(* its interior (more than 100 pixels from the borders and more than 200   *)
(* from each other), listed in row-major order.  A star is its peak value  *)
(* and the outcome curve_fit has on its cutout.  zeroed holds the stars    *)
(* whose cutout has been set to 0.  Sigmas are in tenths of a pixel and    *)
(* FWHMs in 1e-5 pixels.                                                   *)

Saturation == 50000
AttemptBudget == 100
NoiseFloor == 1000
SigmaToFwhm == 23548        \* gaussian_sigma_to_fwhm = 2.3548 per tenth
MinFwhm == 200000           \* fwhm > 2

Live(img) == {i \in 1..Len(img.stars) : i \notin img.zeroed}

\* np.max(search_image): the live peaks, the background, the zeroed pixels.
MaxPeak(img) ==
    LET vals == {img.stars[i].peak : i \in Live(img)} \cup {img.bg}
                    \cup (IF img.zeroed = {} THEN {} ELSE {0})
    IN  CHOOSE m \in vals : \A v \in vals : v <= m

\* line 76: the first pixel, in row-major order, that holds max_peak.
PeakStar(img, max_peak) ==
    CHOOSE i \in Live(img) :
        /\ img.stars[i].peak = max_peak
        /\ \A j \in Live(img) : img.stars[j].peak = max_peak => i <= j

\* lines 99 and 103: image[r-size:r+size, c-size:c+size] = 0
ZeroCutout(img, i) == [img EXCEPT !.zeroed = @ \cup {i}]

CountedIfFitted(count, max_peak) ==
    IF max_peak < Saturation THEN count + 1 ELSE count

\* line 75: count += 1, at the top of every iteration.
Counted(count, max_peak) == count + 1

\* lines 70-73: the statements before the loop.
Enter(img) ==
    [max_peak |-> MaxPeak(img), count |-> 0, fwhm |-> Unbound, im_sig |-> Unbound]

\* lines 75-113: one iteration of the loop, from the array and the local
\* variables to the array, the local variables and whether a break was taken.
Iterate(img, l) ==
    LET count1 == Counted(l.count, l.max_peak)
        i == PeakStar(img, l.max_peak)
        fit == img.stars[i].fit
        unsaturated == l.max_peak < Saturation
        \* lines 90-95: a failed fit sets fwhm and leaves im_sig as it was
        fwhm1 == IF unsaturated
                 THEN Bound(IF fit.ok THEN fit.sig * SigmaToFwhm ELSE 0)
                 ELSE l.fwhm
        im_sig1 == IF unsaturated /\ fit.ok THEN Bound(fit.sig) ELSE l.im_sig
        img1 == ZeroCutout(img, i)
        max1 == MaxPeak(img1)
    IN  IF unsaturated /\ fwhm1.v > MinFwhm
        THEN [img |-> img, break |-> TRUE,                          \* line 97
              l |-> [max_peak |-> l.max_peak, count |-> count1,
                     fwhm |-> fwhm1, im_sig |-> im_sig1]]
        ELSE IF count1 > AttemptBudget \/ max1 < NoiseFloor   \* lines 106-113
        THEN [img |-> img1, break |-> TRUE,
              l |-> [max_peak |-> max1, count |-> count1,
                     fwhm |-> Bound(0), im_sig |-> Bound(0)]]
        ELSE [img |-> img1, break |-> FALSE,
              l |-> [max_peak |-> max1, count |-> count1,
                     fwhm |-> fwhm1, im_sig |-> im_sig1]]

\* line 114: `return fwhm, im_sig`; an unassigned local is an
\* UnboundLocalError.
Return(l) ==
    IF l.fwhm.bound /\ l.im_sig.bound THEN Ok(<<l.fwhm.v, l.im_sig.v>>) ELSE Raise

----------------------------------------------------------------------------
(* Inputs of the FWHM estimator: a few stars, or about as many as the      *)
(* attempt budget and up to MaxBulk, of one kind (all saturated, all too   *)
(* narrow or all failing the fit), followed in brightness by up to         *)
(* MaxFitStars fainter stars of any kind.                                  *)

MaxBulk == 102
MaxFitStars == 1

FitFailed == [ok |-> FALSE, sig |-> 0]
Fitted(sig) == [ok |-> TRUE, sig |-> sig]

BulkKinds == { [peak |-> 60000, fit |-> Fitted(30)],
               [peak |-> 50000, fit |-> Fitted(30)],
               [peak |-> 40000, fit |-> Fitted(8)],
               [peak |-> 40000, fit |-> FitFailed] }

FaintKinds == [peak : {5000, 500}, fit : {FitFailed, Fitted(8), Fitted(30)}]

\* A starless image has a negative background here: on a flat cutout the
\* outcome of the fit is not determined by the model's image.
Images ==
    {im \in
        {[bg |-> bg, zeroed |-> {},
          stars |-> [i \in 1..(n + Len(r)) |-> IF i <= n THEN b ELSE r[i - n]]] :
            bg \in {-10, 0}, b \in BulkKinds,
            n \in (0..2) \cup ((AttemptBudget - 1)..MaxBulk),
            r \in Tables(FaintKinds, MaxFitStars)} :
        im.stars # <<>> \/ im.bg < 0}

InitFwhm ==
    /\ phase = "init"
    /\ image \in {Ok(img) : img \in Images}
    /\ image_before = image
    /\ locals = NoLocals
    /\ fwhm_result = Pending
    /\ stars1 = NoTable /\ stars2 = NoTable /\ diff = Pending
    /\ image_shift = Pending
    /\ detections = <<>> /\ median_image = Pending
    /\ sources = <<>> /\ fwhm = 0 /\ masked = Pending /\ stars_tbl = Pending
    /\ bkg_medians = <<>> /\ image_lbs = Pending

FwhmEnter ==
    /\ phase = "init"
    /\ locals' = Enter(image.val)
    /\ phase' = "loop"
    /\ UNCHANGED <<stars1, stars2, diff, image_shift, detections, median_image,
                   sources, fwhm, masked, stars_tbl, bkg_medians, image_lbs,
                   image, image_before, fwhm_result>>

\* `while max_peak >= 0:` holds and the body runs; the cutouts are zeroed in
\* the caller's array.
FwhmIterate ==
    /\ phase = "loop"
    /\ locals.max_peak >= 0
    /\ \E out \in {Iterate(image.val, locals)} :
          /\ image' = Ok(out.img)
          /\ locals' = out.l
          /\ phase' = IF out.break THEN "break" ELSE "loop"
    /\ UNCHANGED <<stars1, stars2, diff, image_shift, detections, median_image,
                   sources, fwhm, masked, stars_tbl, bkg_medians, image_lbs,
                   image_before, fwhm_result>>

\* The loop is left, by a break or by its condition, and the function returns.
FwhmReturn ==
    /\ phase = "break" \/ (phase = "loop" /\ ~(locals.max_peak >= 0))
    /\ fwhm_result' = Return(locals)
    /\ phase' = "find_fwhm"
    /\ UNCHANGED <<stars1, stars2, diff, image_shift, detections, median_image,
                   sources, fwhm, masked, stars_tbl, bkg_medians, image_lbs,
                   image, image_before, locals>>

NextFwhm == FwhmEnter \/ FwhmIterate \/ FwhmReturn

SpecFwhm == InitFwhm /\ [][NextFwhm]_vars

----------------------------------------------------------------------------
(* Claims about the FWHM estimator.                                        *)

\* C7: no core operation modifies its inputs: after a call the arrays and
\* tables the caller passed in hold what they held before it; find_fwhm zeroes
\* rejected cutouts on a private copy.
C7_InputsUntouched ==
    phase = "find_fwhm" => image = image_before

\* C8: find_fwhm never raises and returns a well-defined pair, either the
\* (fwhm, sigma) of an accepted candidate with fwhm > 2 or exactly (0, 0).
C8_ReturnsPairOrZero ==
    phase = "find_fwhm" =>
        /\ fwhm_result.kind = "ok"
        /\ fwhm_result.val = <<0, 0>> \/ fwhm_result.val[1] > MinFwhm

Saturated(img) == {i \in 1..Len(img.stars) : img.stars[i].peak >= Saturation}
Unsaturated(img) == {i \in 1..Len(img.stars) : img.stars[i].peak < Saturation}

\* The first of the brightest unsaturated stars is above the noise floor and
\* its fitted FWHM exceeds 2.
FollowedByGoodStar(img, i) ==
    /\ i \in Unsaturated(img)
    /\ \A j \in Unsaturated(img) :
          \/ img.stars[j].peak < img.stars[i].peak
          \/ (img.stars[j].peak = img.stars[i].peak /\ i <= j)
    /\ img.stars[i].peak >= NoiseFloor
    /\ img.stars[i].fit.ok
    /\ img.stars[i].fit.sig * SigmaToFwhm > MinFwhm

StarPair(img, i) ==
    Ok(<<img.stars[i].fit.sig * SigmaToFwhm, img.stars[i].fit.sig>>)

\* C9 as stated: rejecting a saturated peak does not count as an attempt, so
\* an image with more than 100 saturated peaks followed by an unsaturated
\* peak whose fitted FWHM exceeds 2 returns that star's (fwhm, sigma).
C9_SaturatedNotCounted ==
    phase = "find_fwhm" =>
        \A i \in 1..Len(image_before.val.stars) :
            (/\ Cardinality(Saturated(image_before.val)) > AttemptBudget
             /\ FollowedByGoodStar(image_before.val, i))
                => fwhm_result = StarPair(image_before.val, i)

\* C9 as amended: every iteration counts as an attempt, the rejection of a
\* saturated peak included.  With at most 100 saturated peaks followed by an
\* unsaturated peak whose fitted FWHM exceeds 2 the call returns that star's
\* (fwhm, sigma); with more than 100 saturated peaks it returns (0, 0); and
\* count ends as the number of zeroed cutouts, plus one for an accepted star.
C9_EveryIterationCounted ==
    phase = "find_fwhm" =>
        /\ \A i \in 1..Len(image_before.val.stars) :
              (/\ Cardinality(Saturated(image_before.val)) <= AttemptBudget
               /\ FollowedByGoodStar(image_before.val, i))
                  => fwhm_result = StarPair(image_before.val, i)
        /\ Cardinality(Saturated(image_before.val)) > AttemptBudget
              => fwhm_result = Ok(<<0, 0>>)
        /\ locals.count = Cardinality(image.val.zeroed)
              + (IF fwhm_result.kind = "ok" /\ fwhm_result.val # <<0, 0>>
                 THEN 1 ELSE 0)

\* 101 saturated peaks, then a good unsaturated star, and (0, 0) is returned.
C9_Witness ==
    /\ phase = "find_fwhm"
    /\ Cardinality(Saturated(image_before.val)) = AttemptBudget + 1
    /\ \E i \in 1..Len(image_before.val.stars) :
          FollowedByGoodStar(image_before.val, i)
    /\ fwhm_result = Ok(<<0, 0>>)

====
